---- MODULE Spec2Model ----
(***************************************************************************)
(* Behaviour model of the interactive fixtures of the mobile test scene:   *)
(* the bullet spawner (test10-continuous-tweens.ts), the create/delete     *)
(* loop, the trigger volumes and the input cubes (index.ts).               *)
(*                                                                         *)
(* Time is counted in units of 50 ms (20 units = 1 s).  Every dt the model *)
(* offers is a multiple of 0.25 s, so all the sums the code computes in    *)
(* double precision are exact and the comparisons against the intervals    *)
(* (0.8 s included, which no multiple of 0.25 s equals) come out as they   *)
(* do here on integers.                                                    *)
(***************************************************************************)
EXTENDS Integers, Sequences, FiniteSets, TLC

VARIABLES
    bulletSpawners,   \* the spawner table (never written after setup)
    spawnerTimers,    \* spawnerTimers[i]: time since spawner i last fired
    activeBullets,    \* sequence of [entity, deathTime], insertion order
    globalTime,       \* accumulated dt of the bullet system
    nextEntity,       \* engine: the next entity id engine.addEntity returns
    removeCalls,      \* engine: the entities passed to engine.removeEntity, in order
    spawnLog,         \* history: [entity, spawner, at] of every bullet, in creation
                      \* order (at: the global time of the frame that spawned it)
    frameLog,         \* history: what the last frame did
    dtHist,           \* history: whether every frame so far had the same dt, and which
    createDeleteEntity,          \* Entity | null
    createDeleteTimer,
    isPlayerInsideCreateDelete,
    cdAlbedo,         \* albedoColor of the create/delete box (NoMaterial while absent)
    cdOverlap,        \* collision layer: the player overlaps the live create/delete box
    cdLog,            \* history: "create" / "delete", one entry per toggle
    cdCall,           \* history: the last direct call of deleteTestBox and the state before it
    deletedInside,    \* history: the flag was set when the last box was deleted
    boxTrigger,       \* [isPlayerInside, albedo] of boxTrigger (TriggerVisual, Material)
    stayCounter,      \* let stayCounter
    stayAlbedo,       \* albedoColor of stayTrigger
    stayLabel,        \* the number shown by stayCounterLabel ("Stay: n")
    trigIn,           \* collision layer: the participants inside each trigger volume
    boxLast,          \* history: the last signal delivered to boxTrigger
    stayLog,          \* history: the signals delivered to stayTrigger, in order
    multiLayerTrigger, \* albedoColor of multiLayerTrigger (CL_PLAYER | CL_POINTER)
    obsMulti,         \* [count, label, albedo]: multiHitCount, "Hits: n", albedoColor
    cube,             \* the input cube under the pointer: its components
    lastInput,        \* history: the input commands of the last frame
    released,         \* history: an action-up was processed and no action-down since
    prevColor,        \* history: currentColor of the cube before the last frame
    pc,               \* engine: the position in SystemOrder of the system to run next
                      \* (0 between two frames)
    ran,              \* history: the systems the current frame has run, in order
    pending,          \* engine: the dt and the input commands of the current frame
    video,            \* [isPlaying, playing, hoverText, statusText, statusColor] of the
                      \* video screen: let isPlaying, VideoPlayer.playing, the hover
                      \* text of videoScreen, text and colour of playStatusLabel
    videoLog,         \* history: for every frame so far, whether it clicked the screen
    setup             \* a call of the fixture constructors that main() has still to
                      \* make, with its arguments (pending FALSE once it is made)

bulletVars == <<bulletSpawners, spawnerTimers, activeBullets, globalTime, spawnLog>>
engineVars == <<nextEntity, removeCalls>>
cdVars == <<createDeleteEntity, createDeleteTimer, isPlayerInsideCreateDelete,
           cdAlbedo, cdOverlap, cdLog, cdCall, deletedInside>>
timerVars == <<bulletVars, engineVars, cdVars, frameLog, dtHist>>
multiVars == <<multiLayerTrigger, obsMulti>>
triggerVars == <<boxTrigger, stayCounter, stayAlbedo, stayLabel, trigIn, boxLast, stayLog,
                 multiVars>>
inputVars == <<cube, lastInput, released, prevColor>>
schedVars == <<pc, ran, pending>>
videoVars == <<video, videoLog>>
sceneVars == <<videoVars, setup>>
vars == <<timerVars, triggerVars, inputVars, schedVars, sceneVars>>

Null == 0

\* dtHist before the first frame, and the test "every frame so far had dt = d".
NoFrame == [any |-> FALSE, uniform |-> TRUE, dt |-> 0]
UniformDt(d) == dtHist.any /\ dtHist.uniform /\ dtHist.dt = d

(***************************************************************************)
(* Bounds.                                                                 *)
(***************************************************************************)
MaxTime == 140
NumParticipants == 2
MaxSignals == 7
MaxCommands == 2
MaxHits == 6
MaxToggles == 3
MaxVideoFrames == 7
NumKeys == 2

\* 0 s, 0.5 s, 1 s, 1.5 s and a 5 s spike that is at least twice every interval.
DtSet == {0, 10, 20, 30, 100}

(***************************************************************************)
(* test10-continuous-tweens.ts: the bullet spawners.                       *)
(***************************************************************************)
SourceSpawners ==
    << [interval |-> 30, lifetime |-> 60],
       [interval |-> 40, lifetime |-> 80],
       [interval |-> 20, lifetime |-> 50],
       [interval |-> 16, lifetime |-> 40],
       [interval |-> 10, lifetime |-> 30] >>

\* The configuration of the documented scenario: interval 1.0 s, lifetime 2.0 s.
ScenarioSpawners == << [interval |-> 20, lifetime |-> 40] >>

SpawnerTables == {SourceSpawners, ScenarioSpawners}

\* Mutant: the death time recorded without the global time (lifetime alone).
RECURSIVE SpawnPassNoGlobalTime(_, _, _, _, _)
SpawnPassNoGlobalTime(spawners, index, dt, now, st) ==
    IF index > Len(spawners) THEN st
    ELSE
        LET t == st.timers[index] + dt IN
        IF t >= spawners[index].interval
        THEN SpawnPassNoGlobalTime(spawners, index + 1, dt, now,
                 [timers  |-> [st.timers EXCEPT ![index] = 0],
                  bullets |-> Append(st.bullets,
                                 [entity |-> st.next,
                                  deathTime |-> spawners[index].lifetime]),
                  next    |-> st.next + 1,
                  log     |-> Append(st.log, [entity |-> st.next, spawner |-> index, at |-> now])])
        ELSE SpawnPassNoGlobalTime(spawners, index + 1, dt, now,
                 [st EXCEPT !.timers = [st.timers EXCEPT ![index] = t]])

\* Mutant: a catch-up loop, the timer keeping its overshoot and the spawner
\* firing again while a whole interval is left.
RECURSIVE SpawnPassCatchUp(_, _, _, _, _)
SpawnPassCatchUp(spawners, index, dt, now, st) ==
    IF index > Len(spawners) THEN st
    ELSE
        LET t == st.timers[index] + dt IN
        IF t >= spawners[index].interval
        THEN SpawnPassCatchUp(spawners, index, 0, now,
                 [timers  |-> [st.timers EXCEPT ![index] = t - spawners[index].interval],
                  bullets |-> Append(st.bullets,
                                 [entity |-> st.next,
                                  deathTime |-> now + spawners[index].lifetime]),
                  next    |-> st.next + 1,
                  log     |-> Append(st.log, [entity |-> st.next, spawner |-> index, at |-> now])])
        ELSE SpawnPassCatchUp(spawners, index + 1, dt, now,
                 [st EXCEPT !.timers = [st.timers EXCEPT ![index] = t]])

\* Mutant: the new item put at the head of activeBullets (unshift for push).
RECURSIVE SpawnPassUnshift(_, _, _, _, _)
SpawnPassUnshift(spawners, index, dt, now, st) ==
    IF index > Len(spawners) THEN st
    ELSE
        LET t == st.timers[index] + dt IN
        IF t >= spawners[index].interval
        THEN SpawnPassUnshift(spawners, index + 1, dt, now,
                 [timers  |-> [st.timers EXCEPT ![index] = 0],
                  bullets |-> <<[entity |-> st.next,
                                 deathTime |-> now + spawners[index].lifetime]>>
                              \o st.bullets,
                  next    |-> st.next + 1,
                  log     |-> Append(st.log, [entity |-> st.next, spawner |-> index, at |-> now])])
        ELSE SpawnPassUnshift(spawners, index + 1, dt, now,
                 [st EXCEPT !.timers = [st.timers EXCEPT ![index] = t]])

\* Mutant: the timer is not reset when the spawner fires.
RECURSIVE SpawnPassNoReset(_, _, _, _, _)
SpawnPassNoReset(spawners, index, dt, now, st) ==
    IF index > Len(spawners) THEN st
    ELSE
        LET t == st.timers[index] + dt IN
        IF t >= spawners[index].interval
        THEN SpawnPassNoReset(spawners, index + 1, dt, now,
                 [timers  |-> [st.timers EXCEPT ![index] = t],
                  bullets |-> Append(st.bullets,
                                 [entity |-> st.next,
                                  deathTime |-> now + spawners[index].lifetime]),
                  next    |-> st.next + 1,
                  log     |-> Append(st.log, [entity |-> st.next, spawner |-> index, at |-> now])])
        ELSE SpawnPassNoReset(spawners, index + 1, dt, now,
                 [st EXCEPT !.timers = [st.timers EXCEPT ![index] = t]])

\* bulletSpawners.forEach: the spawn pass over the spawners index..Len, threaded
\* through st = [timers, bullets, next, log].
RECURSIVE SpawnPass(_, _, _, _, _)
SpawnPass(spawners, index, dt, now, st) ==
    IF index > Len(spawners) THEN st
    ELSE
        LET t == st.timers[index] + dt IN
        IF t >= spawners[index].interval
        THEN SpawnPass(spawners, index + 1, dt, now,
                 [timers  |-> [st.timers EXCEPT ![index] = 0],
                  bullets |-> Append(st.bullets,
                                 [entity |-> st.next,
                                  deathTime |-> now + spawners[index].lifetime]),
                  next    |-> st.next + 1,
                  log     |-> Append(st.log, [entity |-> st.next, spawner |-> index, at |-> now])])
        ELSE SpawnPass(spawners, index + 1, dt, now,
                 [st EXCEPT !.timers = [st.timers EXCEPT ![index] = t]])

\* for (let i = activeBullets.length - 1; i >= 0; i--): the despawn pass from
\* position i down to 1, threaded through st = [bullets, removed].
RemoveAt(s, i) == SubSeq(s, 1, i - 1) \o SubSeq(s, i + 1, Len(s))

\* Mutant: globalTime > deathTime in place of >=.
RECURSIVE DespawnPassStrict(_, _, _)
DespawnPassStrict(i, now, st) ==
    IF i < 1 THEN st
    ELSE IF now > st.bullets[i].deathTime
         THEN DespawnPassStrict(i - 1, now,
                  [bullets |-> RemoveAt(st.bullets, i),
                   removed |-> Append(st.removed, st.bullets[i].entity)])
         ELSE DespawnPassStrict(i - 1, now, st)

\* Mutant: the expired entity is removed from the engine and left in the list
\* (no splice).
RECURSIVE DespawnPassNoSplice(_, _, _)
DespawnPassNoSplice(i, now, st) ==
    IF i < 1 THEN st
    ELSE IF now >= st.bullets[i].deathTime
         THEN DespawnPassNoSplice(i - 1, now,
                  [st EXCEPT !.removed = Append(st.removed, st.bullets[i].entity)])
         ELSE DespawnPassNoSplice(i - 1, now, st)

\* Mutant: the scan stops at the first item that has not expired, as if the
\* list were sorted by death time.
RECURSIVE DespawnPassBreak(_, _, _)
DespawnPassBreak(i, now, st) ==
    IF i < 1 THEN st
    ELSE IF now >= st.bullets[i].deathTime
         THEN DespawnPassBreak(i - 1, now,
                  [bullets |-> RemoveAt(st.bullets, i),
                   removed |-> Append(st.removed, st.bullets[i].entity)])
         ELSE st

RECURSIVE DespawnPass(_, _, _)
DespawnPass(i, now, st) ==
    IF i < 1 THEN st
    ELSE IF now >= st.bullets[i].deathTime
         THEN DespawnPass(i - 1, now,
                  [bullets |-> RemoveAt(st.bullets, i),
                   removed |-> Append(st.removed, st.bullets[i].entity)])
         ELSE DespawnPass(i - 1, now, st)

\* engine.addSystem((dt) => {...}) of the bullet spawner, on
\* b = [timers, bullets, now, next, removed, log].
BulletSystem(spawners, dt, b) ==
    LET now == b.now + dt
        sp  == SpawnPass(spawners, 1, dt, now,
                   [timers |-> b.timers, bullets |-> b.bullets,
                    next |-> b.next, log |-> b.log])
        de  == DespawnPass(Len(sp.bullets), now,
                   [bullets |-> sp.bullets, removed |-> b.removed])
    IN [timers |-> sp.timers, bullets |-> de.bullets, now |-> now,
        next |-> sp.next, removed |-> de.removed, log |-> sp.log]

(***************************************************************************)
(* index.ts: the create/delete loop (test 12 of the trigger sector).       *)
(***************************************************************************)
TRIGGER_COLOR_OUTSIDE == "red"
TRIGGER_COLOR_INSIDE == "green"
NoMaterial == "none"

CREATE_DELETE_INTERVAL == 20

\* createTestBox, on c = [entity, inside, albedo, next, removed, log].
createTestBox(c) ==
    [c EXCEPT !.entity = c.next,
              !.next   = c.next + 1,
              !.albedo = IF c.inside THEN TRIGGER_COLOR_INSIDE ELSE TRIGGER_COLOR_OUTSIDE,
              !.log    = Append(c.log, "create")]

\* Mutant: deleteTestBox without its null check.
deleteTestBoxUnguarded(c) ==
    [c EXCEPT !.removed = Append(c.removed, c.entity),
              !.entity  = Null,
              !.inside  = FALSE,
              !.albedo  = NoMaterial,
              !.log     = Append(c.log, "delete")]

\* Mutant: deleteTestBox leaves isPlayerInsideCreateDelete as it is.
deleteTestBoxKeepsInside(c) ==
    IF c.entity # Null
    THEN [c EXCEPT !.removed = Append(c.removed, c.entity),
                   !.entity  = Null,
                   !.albedo  = NoMaterial,
                   !.log     = Append(c.log, "delete")]
    ELSE c

\* deleteTestBox, on the same record.
deleteTestBox(c) ==
    IF c.entity # Null
    THEN [c EXCEPT !.removed = Append(c.removed, c.entity),
                   !.entity  = Null,
                   !.inside  = FALSE,
                   !.albedo  = NoMaterial,
                   !.log     = Append(c.log, "delete")]
    ELSE c

\* Mutant: the create/delete loop creates a box whenever its timer fires.
CreateDeleteSystemAlwaysCreates(dt, timer, c) ==
    LET t == timer + dt IN
    IF t >= CREATE_DELETE_INTERVAL
    THEN [timer |-> 0, c |-> createTestBox(c)]
    ELSE [timer |-> t, c |-> c]

\* Mutant: createDeleteTimer > CREATE_DELETE_INTERVAL in place of >=.
CreateDeleteSystemStrict(dt, timer, c) ==
    LET t == timer + dt IN
    IF t > CREATE_DELETE_INTERVAL
    THEN [timer |-> 0,
          c |-> IF c.entity = Null THEN createTestBox(c) ELSE deleteTestBox(c)]
    ELSE [timer |-> t, c |-> c]

\* engine.addSystem((dt) => {...}) of the create/delete loop: the new timer and record.
CreateDeleteSystem(dt, timer, c) ==
    LET t == timer + dt IN
    IF t >= CREATE_DELETE_INTERVAL
    THEN [timer |-> 0,
          c |-> IF c.entity = Null THEN createTestBox(c) ELSE deleteTestBox(c)]
    ELSE [timer |-> t, c |-> c]

CdRecord ==
    [entity |-> createDeleteEntity, inside |-> isPlayerInsideCreateDelete,
     albedo |-> cdAlbedo, next |-> nextEntity, removed |-> removeCalls, log |-> cdLog]

NoCall == [called |-> FALSE]

\* deletedInside after a step that takes the record to c.
DeletedInsideAfter(c) ==
    IF createDeleteEntity # Null /\ c.entity = Null
    THEN isPlayerInsideCreateDelete
    ELSE deletedInside

(***************************************************************************)
(* index.ts: boxTrigger (test 1) and stayTrigger (test 6) of the trigger   *)
(* sector.  Each callback is one handler.                                  *)
(***************************************************************************)
Participants == 1..NumParticipants

STAY_COLOR_OUTSIDE == "teal"
STAY_COLOR_INSIDE == "spring green"

\* triggerAreaEventsSystem.onTriggerEnter(boxTrigger, ...)
boxOnTriggerEnter(t) ==
    [isPlayerInside |-> TRUE, albedo |-> TRIGGER_COLOR_INSIDE]

\* Mutant: the exit callback changes the material and leaves the flag.
boxOnTriggerExitKeepsFlag(t) ==
    [t EXCEPT !.albedo = TRIGGER_COLOR_OUTSIDE]

\* triggerAreaEventsSystem.onTriggerExit(boxTrigger, ...)
boxOnTriggerExit(t) ==
    [isPlayerInside |-> FALSE, albedo |-> TRIGGER_COLOR_OUTSIDE]

\* Mutant: the enter callback resets nothing.
stayOnTriggerEnterNoReset(s) ==
    [s EXCEPT !.albedo = STAY_COLOR_INSIDE]

\* triggerAreaEventsSystem.onTriggerEnter(stayTrigger, ...), on
\* s = [counter, albedo, label].
stayOnTriggerEnter(s) ==
    [s EXCEPT !.counter = 0, !.albedo = STAY_COLOR_INSIDE]

\* triggerAreaEventsSystem.onTriggerStay(stayTrigger, ...)
stayOnTriggerStay(s) ==
    [s EXCEPT !.counter = s.counter + 1, !.label = s.counter + 1]

\* Mutant: the exit callback also resets the counter.
stayOnTriggerExitResets(s) ==
    [s EXCEPT !.counter = 0, !.albedo = STAY_COLOR_OUTSIDE]

\* triggerAreaEventsSystem.onTriggerExit(stayTrigger, ...)
stayOnTriggerExit(s) ==
    [s EXCEPT !.albedo = STAY_COLOR_OUTSIDE]

StayRecord == [counter |-> stayCounter, albedo |-> stayAlbedo, label |-> stayLabel]

(***************************************************************************)
(* index.ts: the control-mapping cubes.  Colours are Color4 values in      *)
(* hundredths <<r, g, b, a>>; Color4.Gray() is (0.5, 0.5, 0.5, 1), the     *)
(* value of DEFAULT_COLOR.                                                 *)
(***************************************************************************)
INPUT_ACTIONS ==
    << [action |-> "IA_POINTER",   name |-> "POINTER",   key |-> "Left Click", color |-> <<100, 0, 0, 100>>],
       [action |-> "IA_PRIMARY",   name |-> "PRIMARY",   key |-> "E Key",      color |-> <<0, 100, 0, 100>>],
       [action |-> "IA_SECONDARY", name |-> "SECONDARY", key |-> "F Key",      color |-> <<0, 0, 100, 100>>],
       [action |-> "IA_ACTION_3",  name |-> "ACTION_3",  key |-> "1 Key",      color |-> <<100, 100, 0, 100>>],
       [action |-> "IA_ACTION_4",  name |-> "ACTION_4",  key |-> "2 Key",      color |-> <<0, 100, 100, 100>>],
       [action |-> "IA_ACTION_5",  name |-> "ACTION_5",  key |-> "3 Key",      color |-> <<100, 0, 100, 100>>],
       [action |-> "IA_ACTION_6",  name |-> "ACTION_6",  key |-> "4 Key",      color |-> <<100, 50, 0, 100>>],
       [action |-> "IA_JUMP",      name |-> "JUMP",      key |-> "Space",      color |-> <<50, 0, 50, 100>>],
       [action |-> "IA_FORWARD",   name |-> "FORWARD",   key |-> "W Key",      color |-> <<100, 100, 100, 100>>],
       [action |-> "IA_BACKWARD",  name |-> "BACKWARD",  key |-> "S Key",      color |-> <<50, 50, 50, 100>>],
       [action |-> "IA_LEFT",      name |-> "LEFT",      key |-> "A Key",      color |-> <<100, 75, 80, 100>>],
       [action |-> "IA_RIGHT",     name |-> "RIGHT",     key |-> "D Key",      color |-> <<0, 50, 50, 100>>] >>

DEFAULT_COLOR == <<50, 50, 50, 100>>

\* A material property setPbrMaterial was not given.
Unset == <<>>

\* INPUT_ACTIONS.findIndex(a => a.action === action), 0-based, -1 if absent.
findIndex(action) ==
    IF \E i \in 1..Len(INPUT_ACTIONS) : INPUT_ACTIONS[i].action = action
    THEN (CHOOSE i \in 1..Len(INPUT_ACTIONS) :
             /\ INPUT_ACTIONS[i].action = action
             /\ \A j \in 1..(i - 1) : INPUT_ACTIONS[j].action # action) - 1
    ELSE -1

getActionKey(action) ==
    IF findIndex(action) >= 0 THEN INPUT_ACTIONS[findIndex(action) + 1].key ELSE "Unknown"

getActionColor(action) ==
    IF findIndex(action) >= 0 THEN INPUT_ACTIONS[findIndex(action) + 1].color
    ELSE DEFAULT_COLOR

getActionName(action) ==
    IF findIndex(action) >= 0 THEN INPUT_ACTIONS[findIndex(action) + 1].name ELSE "UNKNOWN"

\* The hover texts: 'Press any key', `Press ${key}`, `Pressed: ${name}`.
PressAnyKey == <<"Press any key">>
PressKey(key) == <<"Press ", key>>
PressedName(name) == <<"Pressed: ", name>>

\* createInputCube(position, scale, actions, isMasterCube): the components of the
\* new cube.  hoverText[i] is the text of the PET_DOWN entry of actions[i].
createInputCube(actions, isMasterCube) ==
    [actions      |-> actions,
     currentColor |-> -1,
     isPressed    |-> FALSE,
     isMasterCube |-> isMasterCube,
     isHovered    |-> FALSE,
     lastAction   |-> "",
     material     |-> [albedoColor |-> DEFAULT_COLOR, emissiveColor |-> Unset,
                       emissiveIntensity |-> "unset"],
     hoverText    |-> [i \in 1..Len(actions) |->
                          IF isMasterCube THEN PressAnyKey
                          ELSE PressKey(getActionKey(actions[i]))]]

\* updateHoverText(entity, isMasterCube, actionName, isPressed)
updateHoverText(c, isMasterCube, actionName, isPressed) ==
    [c EXCEPT !.hoverText =
        [i \in 1..Len(c.actions) |->
            IF isPressed THEN PressedName(actionName)
            ELSE IF isMasterCube THEN PressAnyKey
            ELSE PressKey(getActionKey(c.actions[i]))]]

\* Mutant: a press is ignored while another action is active (first writer wins).
OnDownIfIdle(c, action) ==
    IF c.isPressed THEN c
    ELSE updateHoverText(
        [c EXCEPT !.isPressed = TRUE,
                  !.currentColor = findIndex(action),
                  !.material = [albedoColor |-> getActionColor(action),
                                emissiveColor |-> Unset, emissiveIntensity |-> "unset"],
                  !.lastAction = getActionName(action)],
        c.isMasterCube, getActionName(action), TRUE)

\* The body of the pointer DOWN system for one observed action.
OnDown(c, action) ==
    updateHoverText(
        [c EXCEPT !.isPressed = TRUE,
                  !.currentColor = findIndex(action),
                  !.material = [albedoColor |-> getActionColor(action),
                                emissiveColor |-> Unset, emissiveIntensity |-> "unset"],
                  !.lastAction = getActionName(action)],
        c.isMasterCube, getActionName(action), TRUE)

\* System: Handle pointer DOWN events: for (const action of state.actions),
\* from position i on; downs are the actions with a PET_DOWN command this frame.
RECURSIVE DownSystem(_, _, _)
DownSystem(c, i, downs) ==
    IF i > Len(c.actions) THEN c
    ELSE DownSystem(IF c.actions[i] \in downs THEN OnDown(c, c.actions[i]) ELSE c,
                    i + 1, downs)

\* Mutant: the release leaves the material as it is.
OnUpKeepsMaterial(c) ==
    updateHoverText(
        [c EXCEPT !.isPressed = FALSE,
                  !.currentColor = -1],
        c.isMasterCube, "", FALSE)

\* Mutant: the release leaves the hover text as it is.
OnUpKeepsText(c) ==
    [c EXCEPT !.isPressed = FALSE,
              !.currentColor = -1,
              !.material = [albedoColor |-> DEFAULT_COLOR,
                            emissiveColor |-> Unset, emissiveIntensity |-> "unset"]]

\* Mutant: the release leaves currentColor as it is.
OnUpKeepsColor(c) ==
    updateHoverText(
        [c EXCEPT !.isPressed = FALSE,
                  !.material = [albedoColor |-> DEFAULT_COLOR,
                                emissiveColor |-> Unset, emissiveIntensity |-> "unset"]],
        c.isMasterCube, "", FALSE)

\* The body of the pointer UP system for one observed action.
OnUp(c) ==
    updateHoverText(
        [c EXCEPT !.isPressed = FALSE,
                  !.currentColor = -1,
                  !.material = [albedoColor |-> DEFAULT_COLOR,
                                emissiveColor |-> Unset, emissiveIntensity |-> "unset"]],
        c.isMasterCube, "", FALSE)

\* System: Handle pointer UP events.
RECURSIVE UpSystem(_, _, _)
UpSystem(c, i, ups) ==
    IF i > Len(c.actions) THEN c
    ELSE UpSystem(IF c.actions[i] \in ups THEN OnUp(c) ELSE c, i + 1, ups)

\* cubeState.currentColor >= 0 ? INPUT_ACTIONS[cubeState.currentColor].color : DEFAULT_COLOR
CurrentColorOf(c) ==
    IF c.currentColor >= 0 THEN INPUT_ACTIONS[c.currentColor + 1].color ELSE DEFAULT_COLOR

\* Mutant: the hover overlay glows in the neutral colour whatever the active action.
HoverEnterSystemNeutralGlow(c, hoverEnter) ==
    IF hoverEnter
    THEN updateHoverText(
             [c EXCEPT !.isHovered = TRUE,
                       !.material = [albedoColor |-> CurrentColorOf(c),
                                     emissiveColor |-> DEFAULT_COLOR,
                                     emissiveIntensity |-> "0.6"]],
             c.isMasterCube, "", FALSE)
    ELSE c

\* System: Handle HOVER_ENTER events.
HoverEnterSystem(c, hoverEnter) ==
    IF hoverEnter
    THEN updateHoverText(
             [c EXCEPT !.isHovered = TRUE,
                       !.material = [albedoColor |-> CurrentColorOf(c),
                                     emissiveColor |-> CurrentColorOf(c),
                                     emissiveIntensity |-> "0.6"]],
             c.isMasterCube, "", FALSE)
    ELSE c

\* Mutant: hover-leave paints the neutral colour whatever the active action.
HoverLeaveSystemNeutral(c, hoverLeave) ==
    IF hoverLeave
    THEN [c EXCEPT !.isHovered = FALSE,
                   !.material = [albedoColor |-> DEFAULT_COLOR,
                                 emissiveColor |-> Unset, emissiveIntensity |-> "0"]]
    ELSE c

\* System: Handle HOVER_LEAVE events.
HoverLeaveSystem(c, hoverLeave) ==
    IF hoverLeave
    THEN [c EXCEPT !.isHovered = FALSE,
                   !.material = [albedoColor |-> CurrentColorOf(c),
                                 emissiveColor |-> Unset, emissiveIntensity |-> "0"]]
    ELSE c

\* The input systems with the action-up system added before the action-down one.
InputSystemsUpFirst(c, in) ==
    HoverLeaveSystem(
        HoverEnterSystem(
            DownSystem(UpSystem(c, 1, in.ups), 1, in.downs),
            in.hoverEnter),
        in.hoverLeave)

\* The four input systems of one frame, in the order they were added.
InputSystems(c, in) ==
    HoverLeaveSystem(
        HoverEnterSystem(
            UpSystem(DownSystem(c, 1, in.downs), 1, in.ups),
            in.hoverEnter),
        in.hoverLeave)

\* The cubes main() creates: the master cube and one cube per action.
ActionList == [i \in 1..Len(INPUT_ACTIONS) |-> INPUT_ACTIONS[i].action]
SceneCubes ==
    {createInputCube(ActionList, TRUE)}
    \cup {createInputCube(<<INPUT_ACTIONS[i].action>>, FALSE) : i \in 1..Len(INPUT_ACTIONS)}

NoInput == [downs |-> {}, ups |-> {}, hoverEnter |-> FALSE, hoverLeave |-> FALSE]

(***************************************************************************)
(* The state after setup.                                                  *)
(***************************************************************************)
\* Multiple Layers Trigger and Obstacle 4 (multi-collision trigger): the colours.
MULTI_COLOR_IDLE == "orange"
MULTI_LAYER_COLOR_TRIGGERED == "yellow"
OBS_MULTI_COLOR_HIT == "green"

\* triggerAreaEventsSystem.onTriggerEnter(multiLayerTrigger, ...)
multiLayerOnTriggerEnter(albedo) == MULTI_LAYER_COLOR_TRIGGERED

\* triggerAreaEventsSystem.onTriggerExit(multiLayerTrigger, ...)
multiLayerOnTriggerExit(albedo) == MULTI_COLOR_IDLE

\* triggerAreaEventsSystem.onTriggerEnter(obsMulti, ...), on m = [count, label, albedo].
obsMultiOnTriggerEnter(m) ==
    [count |-> m.count + 1, label |-> m.count + 1, albedo |-> OBS_MULTI_COLOR_HIT]

\* triggerAreaEventsSystem.onTriggerExit(obsMulti, ...)
obsMultiOnTriggerExit(m) ==
    [m EXCEPT !.albedo = MULTI_COLOR_IDLE]

(***************************************************************************)
(* The video screen: the play/pause toggle.                                *)
(***************************************************************************)
VideoState(playing) ==
    [isPlaying   |-> playing,
     playing     |-> playing,
     hoverText   |-> IF playing THEN "Click to PAUSE" ELSE "Click to PLAY",
     statusText  |-> IF playing THEN "PLAYING - Click screen to pause"
                     ELSE "PAUSED - Click screen to play",
     statusColor |-> IF playing THEN "green" ELSE "yellow"]

\* VideoPlayer.create(..., playing: false), let isPlaying = false, the hover
\* text and the status label as the setup function creates them.
VideoAtSetup ==
    [isPlaying   |-> FALSE,
     playing     |-> FALSE,
     hoverText   |-> "Click to PLAY",
     statusText  |-> "PAUSED - Click screen to play",
     statusColor |-> "yellow"]

\* Mutant: a click always starts the video (videoPlayer.playing = true).
VideoToggleSystemAlwaysPlays(v, cmd) ==
    IF cmd
    THEN [v EXCEPT !.isPlaying = ~v.isPlaying,
                   !.playing = TRUE,
                   !.hoverText = IF ~v.isPlaying THEN "Click to PAUSE" ELSE "Click to PLAY",
                   !.statusText = IF ~v.isPlaying THEN "PLAYING - Click screen to pause"
                                  ELSE "PAUSED - Click screen to play",
                   !.statusColor = IF ~v.isPlaying THEN "green" ELSE "yellow"]
    ELSE v

\* System to handle play/pause toggle; cmd: the frame has a pointer-down command
\* for videoScreen.
VideoToggleSystem(v, cmd) ==
    IF cmd
    THEN [v EXCEPT !.isPlaying = ~v.isPlaying,
                   !.playing = ~v.isPlaying,
                   !.hoverText = IF ~v.isPlaying THEN "Click to PAUSE" ELSE "Click to PLAY",
                   !.statusText = IF ~v.isPlaying THEN "PLAYING - Click screen to pause"
                                  ELSE "PAUSED - Click screen to play",
                   !.statusColor = IF ~v.isPlaying THEN "green" ELSE "yellow"]
    ELSE v

(***************************************************************************)
(* Calls of the fixture constructors with configurations main() does not   *)
(* use: action lists of length 0, 1 and 2, and spawner tables with a zero  *)
(* or negative interval or lifetime.                                       *)
(***************************************************************************)
ConfigActionLists == {<<>>, <<"IA_POINTER">>, <<"IA_POINTER", "IA_PRIMARY">>}
ConfigTables ==
    {ScenarioSpawners,
     << [interval |-> 0, lifetime |-> 40] >>,
     << [interval |-> 20, lifetime |-> 0] >>,
     << [interval |-> -20, lifetime |-> -40] >>}

NoSetup == [pending |-> FALSE]
SetupCalls ==
    [pending : {TRUE}, actions : ConfigActionLists, isMasterCube : BOOLEAN,
     table : ConfigTables]

Init ==
    /\ bulletSpawners \in SpawnerTables
    /\ spawnerTimers = [i \in 1..Len(bulletSpawners) |-> 0]
    /\ activeBullets = <<>>
    /\ globalTime = 0
    /\ nextEntity = 1
    /\ removeCalls = <<>>
    /\ spawnLog = <<>>
    /\ frameLog = [dt |-> 0, spawn0 |-> 0, remove0 |-> 0, cd0 |-> 0]
    /\ dtHist = NoFrame
    /\ createDeleteEntity = Null
    /\ createDeleteTimer = 0
    /\ isPlayerInsideCreateDelete = FALSE
    /\ cdAlbedo = NoMaterial
    /\ cdOverlap = FALSE
    /\ cdLog = <<>>
    /\ cdCall = NoCall
    /\ deletedInside = FALSE
    /\ boxTrigger = [isPlayerInside |-> FALSE, albedo |-> TRIGGER_COLOR_OUTSIDE]
    /\ stayCounter = 0
    /\ stayAlbedo = STAY_COLOR_OUTSIDE
    /\ stayLabel = 0
    /\ trigIn = [t \in {"box", "stay", "multiLayer", "obsMulti"} |-> {}]
    /\ multiLayerTrigger = MULTI_COLOR_IDLE
    /\ obsMulti = [count |-> 0, label |-> 0, albedo |-> MULTI_COLOR_IDLE]
    /\ boxLast = "none"
    /\ stayLog = <<>>
    /\ cube \in SceneCubes
    /\ lastInput = NoInput
    /\ released = FALSE
    /\ prevColor = -1
    /\ pc = 0
    /\ ran = <<>>
    /\ pending = [dt |-> 0, in |-> NoInput]
    /\ video = VideoAtSetup
    /\ videoLog = <<>>
    /\ setup \in SetupCalls \cup {NoSetup}

(***************************************************************************)
(* One frame: the systems run in the order they were added (setupTriggers- *)
(* Test before setupContinuousTweensTest), each with the frame's dt.       *)
(***************************************************************************)
Frame(dt) ==
    /\ globalTime + dt <= MaxTime
    /\ LET cd == CreateDeleteSystem(dt, createDeleteTimer, CdRecord)
           b  == BulletSystem(bulletSpawners, dt,
                     [timers |-> spawnerTimers, bullets |-> activeBullets,
                      now |-> globalTime, next |-> cd.c.next,
                      removed |-> cd.c.removed, log |-> spawnLog])
       IN /\ createDeleteTimer' = cd.timer
          /\ createDeleteEntity' = cd.c.entity
          /\ isPlayerInsideCreateDelete' = cd.c.inside
          /\ cdAlbedo' = cd.c.albedo
          /\ cdLog' = cd.c.log
          /\ cdOverlap' = IF cd.c.entity = createDeleteEntity THEN cdOverlap ELSE FALSE
          /\ deletedInside' = DeletedInsideAfter(cd.c)
          /\ spawnerTimers' = b.timers
          /\ activeBullets' = b.bullets
          /\ globalTime' = b.now
          /\ nextEntity' = b.next
          /\ removeCalls' = b.removed
          /\ spawnLog' = b.log
    /\ frameLog' = [dt |-> dt, spawn0 |-> Len(spawnLog), remove0 |-> Len(removeCalls),
                    cd0 |-> Len(cdLog)]
    /\ dtHist' = IF ~dtHist.any \/ UniformDt(dt)
                 THEN [any |-> TRUE, uniform |-> TRUE, dt |-> dt]
                 ELSE [any |-> TRUE, uniform |-> FALSE, dt |-> 0]
    /\ cdCall' = NoCall
    /\ UNCHANGED <<bulletSpawners, triggerVars, inputVars, schedVars, sceneVars>>

Tick == \E dt \in DtSet : Frame(dt)

\* triggerAreaEventsSystem.onTriggerEnter(createDeleteEntity, ...): the player
\* crosses into the live box.
CdTriggerEnter ==
    /\ createDeleteEntity # Null
    /\ ~cdOverlap
    /\ cdOverlap' = TRUE
    /\ isPlayerInsideCreateDelete' = TRUE
    /\ cdAlbedo' = IF createDeleteEntity # Null THEN TRIGGER_COLOR_INSIDE ELSE cdAlbedo
    /\ cdCall' = NoCall
    /\ UNCHANGED <<bulletVars, engineVars, frameLog, dtHist,
                   createDeleteEntity, createDeleteTimer, cdLog, deletedInside,
                   triggerVars, inputVars, schedVars, sceneVars>>

\* triggerAreaEventsSystem.onTriggerExit(createDeleteEntity, ...).
CdTriggerExit ==
    /\ createDeleteEntity # Null
    /\ cdOverlap
    /\ cdOverlap' = FALSE
    /\ isPlayerInsideCreateDelete' = FALSE
    /\ cdAlbedo' = IF createDeleteEntity # Null THEN TRIGGER_COLOR_OUTSIDE ELSE cdAlbedo
    /\ cdCall' = NoCall
    /\ UNCHANGED <<bulletVars, engineVars, frameLog, dtHist,
                   createDeleteEntity, createDeleteTimer, cdLog, deletedInside,
                   triggerVars, inputVars, schedVars, sceneVars>>

Next == Tick \/ CdTriggerEnter \/ CdTriggerExit

\* The fixtures share no state: each specification follows one group of them and
\* fixes the configuration of the others.
MasterCube == createInputCube(ActionList, TRUE)

InitTimers == Init /\ cube = MasterCube /\ setup = NoSetup

Spec == InitTimers /\ [][Next]_vars

\* A direct call of deleteTestBox(), whatever the state of the slot: the call the
\* create/delete system makes only while an instance exists.
CallDeleteTestBox ==
    /\ LET c == deleteTestBox(CdRecord)
       IN /\ createDeleteEntity' = c.entity
          /\ isPlayerInsideCreateDelete' = c.inside
          /\ cdAlbedo' = c.albedo
          /\ cdLog' = c.log
          /\ nextEntity' = c.next
          /\ removeCalls' = c.removed
          /\ cdOverlap' = IF c.entity = createDeleteEntity THEN cdOverlap ELSE FALSE
          /\ deletedInside' = DeletedInsideAfter(c)
    /\ cdCall' = [called |-> TRUE, timer |-> createDeleteTimer, pre |-> CdRecord]
    /\ UNCHANGED <<bulletVars, frameLog, dtHist, createDeleteTimer, triggerVars,
                   inputVars, schedVars, sceneVars>>

NextDirect == Next \/ CallDeleteTestBox

InitDirect == InitTimers /\ bulletSpawners = ScenarioSpawners

SpecDirect == InitDirect /\ [][NextDirect]_vars

(***************************************************************************)
(* The trigger volumes: the collision layer delivers Enter when a          *)
(* participant crosses into a volume, Stay while one is inside, Exit when  *)
(* it leaves.                                                              *)
(***************************************************************************)
BoxEnter(p) ==
    /\ p \notin trigIn["box"]
    /\ trigIn' = [trigIn EXCEPT !["box"] = @ \cup {p}]
    /\ boxTrigger' = boxOnTriggerEnter(boxTrigger)
    /\ boxLast' = "enter"
    /\ UNCHANGED <<timerVars, inputVars, schedVars, stayCounter, stayAlbedo, stayLabel, stayLog,
                   multiVars, sceneVars>>

BoxExit(p) ==
    /\ p \in trigIn["box"]
    /\ trigIn' = [trigIn EXCEPT !["box"] = @ \ {p}]
    /\ boxTrigger' = boxOnTriggerExit(boxTrigger)
    /\ boxLast' = "exit"
    /\ UNCHANGED <<timerVars, inputVars, schedVars, stayCounter, stayAlbedo, stayLabel, stayLog,
                   multiVars, sceneVars>>

StaySignal(sig, s) ==
    /\ Len(stayLog) < MaxSignals
    /\ stayLog' = Append(stayLog, sig)
    /\ stayCounter' = s.counter
    /\ stayAlbedo' = s.albedo
    /\ stayLabel' = s.label
    /\ UNCHANGED <<timerVars, inputVars, schedVars, boxTrigger, boxLast, multiVars, sceneVars>>

StayEnter(p) ==
    /\ p \notin trigIn["stay"]
    /\ trigIn' = [trigIn EXCEPT !["stay"] = @ \cup {p}]
    /\ StaySignal("enter", stayOnTriggerEnter(StayRecord))

StayStay(p) ==
    /\ p \in trigIn["stay"]
    /\ UNCHANGED trigIn
    /\ StaySignal("stay", stayOnTriggerStay(StayRecord))

StayExit(p) ==
    /\ p \in trigIn["stay"]
    /\ trigIn' = [trigIn EXCEPT !["stay"] = @ \ {p}]
    /\ StaySignal("exit", stayOnTriggerExit(StayRecord))

NextTriggers ==
    \E p \in Participants :
        BoxEnter(p) \/ BoxExit(p) \/ StayEnter(p) \/ StayStay(p) \/ StayExit(p)

SpecTriggers == InitDirect /\ [][NextTriggers]_vars

(***************************************************************************)
(* The triggers of several collision layers: multiLayerTrigger (player and *)
(* pointer) and obsMulti (player and ball).  A participant enters a volume *)
(* it is outside of and leaves one it is inside of; every signal runs the  *)
(* callback registered for it.  MaxHits caps multiHitCount.                *)
(***************************************************************************)
singleTriggerVars == <<boxTrigger, stayCounter, stayAlbedo, stayLabel, boxLast, stayLog>>

MultiLayerEnter(p) ==
    /\ p \notin trigIn["multiLayer"]
    /\ trigIn' = [trigIn EXCEPT !["multiLayer"] = @ \cup {p}]
    /\ multiLayerTrigger' = multiLayerOnTriggerEnter(multiLayerTrigger)
    /\ UNCHANGED <<timerVars, inputVars, schedVars, singleTriggerVars, obsMulti, sceneVars>>

MultiLayerExit(p) ==
    /\ p \in trigIn["multiLayer"]
    /\ trigIn' = [trigIn EXCEPT !["multiLayer"] = @ \ {p}]
    /\ multiLayerTrigger' = multiLayerOnTriggerExit(multiLayerTrigger)
    /\ UNCHANGED <<timerVars, inputVars, schedVars, singleTriggerVars, obsMulti, sceneVars>>

ObsMultiEnter(p) ==
    /\ obsMulti.count < MaxHits
    /\ p \notin trigIn["obsMulti"]
    /\ trigIn' = [trigIn EXCEPT !["obsMulti"] = @ \cup {p}]
    /\ obsMulti' = obsMultiOnTriggerEnter(obsMulti)
    /\ UNCHANGED <<timerVars, inputVars, schedVars, singleTriggerVars, multiLayerTrigger, sceneVars>>

ObsMultiExit(p) ==
    /\ p \in trigIn["obsMulti"]
    /\ trigIn' = [trigIn EXCEPT !["obsMulti"] = @ \ {p}]
    /\ obsMulti' = obsMultiOnTriggerExit(obsMulti)
    /\ UNCHANGED <<timerVars, inputVars, schedVars, singleTriggerVars, multiLayerTrigger, sceneVars>>

NextMulti ==
    \E p \in Participants :
        MultiLayerEnter(p) \/ MultiLayerExit(p) \/ ObsMultiEnter(p) \/ ObsMultiExit(p)

SpecMulti == InitDirect /\ [][NextMulti]_vars

(***************************************************************************)
(* Properties of the trigger volumes.                                      *)
(***************************************************************************)
\* C2: the occupied flag of boxTrigger is true if the last signal delivered was
\* Enter, false if it was Exit, and false if none was delivered.
C2_OccupiedIsLastSignal ==
    boxTrigger.isPlayerInside <=> (boxLast = "enter")

\* An Exit delivered while another participant is still inside.
C2_Witness ==
    /\ boxLast = "exit"
    /\ trigIn["box"] # {}
    /\ ~boxTrigger.isPlayerInside

StayOccupied == stayAlbedo = STAY_COLOR_INSIDE

RECURSIVE CountStays(_)
\* The number of Stay signals at the end of log, back to the last Enter.
CountStays(log) ==
    IF log = <<>> \/ log[Len(log)] = "enter" THEN 0
    ELSE (IF log[Len(log)] = "stay" THEN 1 ELSE 0)
         + CountStays(SubSeq(log, 1, Len(log) - 1))

\* C3 (as stated): the stay counter is 0 whenever the volume is not occupied.
C3_Original ==
    ~StayOccupied => stayCounter = 0

\* C3 (amended): the stay counter is 0 right after every Enter, and while the
\* volume is not occupied it is the number of Stay signals of the session that
\* ended (0 only if there was none): Exit does not reset it.
C3_CounterKeptAfterExit ==
    /\ (stayLog # <<>> /\ stayLog[Len(stayLog)] = "enter") => stayCounter = 0
    /\ ~StayOccupied => stayCounter = CountStays(stayLog)

\* Not occupied after an Exit that followed Stay signals.
C3_Witness ==
    /\ ~StayOccupied
    /\ Len(stayLog) >= 3
    /\ stayLog[Len(stayLog)] = "exit"
    /\ stayLog[Len(stayLog) - 1] = "stay"
    /\ stayCounter > 0

Stays(n) == [i \in 1..n |-> "stay"]
TwoSessions(n, m) == <<"enter">> \o Stays(n) \o <<"exit", "enter">> \o Stays(m)

\* C4: after Enter, Stay x N, Exit, Enter, Stay x M the stay counter is M (0
\* right after the second Enter): the first session's count does not leak.
C4_SecondSessionCount ==
    \A n \in 0..MaxSignals, m \in 0..MaxSignals :
        stayLog = TwoSessions(n, m) => stayCounter = m

C4_Witness ==
    /\ stayLog = TwoSessions(2, 2)
    /\ stayCounter = 2

\* C13: an Enter delivered to the stay trigger while it already shows occupied
\* is a no-op: it leaves the stay counter and the visual state as they were
\* (the counter is reset only on the not-occupied -> occupied transition).
C13_EnterWhileOccupiedNoOp ==
    [][ (StayOccupied /\ stayLog' = Append(stayLog, "enter"))
        => (stayCounter' = stayCounter /\ stayAlbedo' = stayAlbedo) ]_vars

\* C14: a trigger of several layers shows 'inside' whenever at least one
\* participant is inside it: with the player and the ball (or the pointer)
\* inside, the Exit of one of them leaves the volume shown as occupied.
C14_InsideWhileAnyInside ==
    /\ trigIn["multiLayer"] # {} => multiLayerTrigger = MULTI_LAYER_COLOR_TRIGGERED
    /\ trigIn["obsMulti"] # {} => obsMulti.albedo = OBS_MULTI_COLOR_HIT

(***************************************************************************)
(* The input cubes: one frame with the commands inputSystem reports for    *)
(* the cube, at most MaxCommands button commands among them.               *)
(***************************************************************************)
CubeActions == {cube.actions[i] : i \in 1..Len(cube.actions)}

\* The buttons used on the master cube: BACKWARD (whose colour is the neutral
\* grey), POINTER (first of INPUT_ACTIONS), RIGHT (last), the first NumKeys of them.
KeyOrder == <<"IA_BACKWARD", "IA_POINTER", "IA_RIGHT", "IA_PRIMARY">>
PlayedKeys ==
    IF Len(cube.actions) = 1 THEN CubeActions
    ELSE {KeyOrder[i] : i \in {j \in 1..Len(KeyOrder) : j <= NumKeys}} \cap CubeActions

\* The subsets of S with at most k elements.
RECURSIVE SubsetsUpTo(_, _)
SubsetsUpTo(S, k) ==
    IF k = 0 THEN {{}}
    ELSE LET P == SubsetsUpTo(S, k - 1) IN P \cup {x \cup {a} : x \in P, a \in S}

FrameInputs ==
    {in \in [downs : SubsetsUpTo(PlayedKeys, MaxCommands),
             ups : SubsetsUpTo(PlayedKeys, MaxCommands),
             hoverEnter : BOOLEAN, hoverLeave : BOOLEAN] :
        Cardinality(in.downs) + Cardinality(in.ups) <= MaxCommands}

InputFrame(in) ==
    /\ ~setup.pending
    /\ cube' = InputSystems(cube, in)
    /\ lastInput' = in
    /\ released' = IF in.ups # {} THEN TRUE
                   ELSE IF in.downs # {} THEN FALSE
                   ELSE released
    /\ prevColor' = cube.currentColor
    /\ UNCHANGED <<timerVars, triggerVars, schedVars, sceneVars>>

NextInput == \E in \in FrameInputs : InputFrame(in)

InitInput == Init /\ bulletSpawners = ScenarioSpawners /\ setup = NoSetup

SpecInput == InitInput /\ [][NextInput]_vars

(***************************************************************************)
(* The frame system by system: the engine runs the systems of main() one   *)
(* after the other in the order engine.addSystem was called (they all have *)
(* the default priority), each on the state the previous one left.  The    *)
(* create/delete loop is added in the trigger section of main(), the four  *)
(* input systems at its end.  MaxToggles caps the length of cdLog.         *)
(***************************************************************************)
\* Mutant: the create/delete loop added after the input systems.
SystemOrderTimerLast == <<"down", "up", "hoverEnter", "hoverLeave", "createDelete">>

SystemOrder == <<"createDelete", "down", "up", "hoverEnter", "hoverLeave">>

BeginFrame(dt, in) ==
    /\ pc = 0
    /\ Len(cdLog) < MaxToggles
    /\ pc' = 1
    /\ ran' = <<>>
    /\ pending' = [dt |-> dt, in |-> in]
    /\ UNCHANGED <<timerVars, triggerVars, inputVars, sceneVars>>

\* The system at position pc has run.
Advance(name) ==
    /\ pc >= 1
    /\ SystemOrder[pc] = name
    /\ pc' = IF pc = Len(SystemOrder) THEN 0 ELSE pc + 1
    /\ ran' = Append(ran, name)
    /\ UNCHANGED pending

RunCreateDelete ==
    /\ Advance("createDelete")
    /\ LET cd == CreateDeleteSystem(pending.dt, createDeleteTimer, CdRecord)
       IN /\ createDeleteTimer' = cd.timer
          /\ createDeleteEntity' = cd.c.entity
          /\ isPlayerInsideCreateDelete' = cd.c.inside
          /\ cdAlbedo' = cd.c.albedo
          /\ cdLog' = cd.c.log
          /\ cdOverlap' = IF cd.c.entity = createDeleteEntity THEN cdOverlap ELSE FALSE
          /\ deletedInside' = DeletedInsideAfter(cd.c)
          /\ nextEntity' = cd.c.next
          /\ removeCalls' = cd.c.removed
    /\ UNCHANGED <<bulletVars, frameLog, dtHist, cdCall, triggerVars, inputVars, sceneVars>>

RunInputSystem(name, c) ==
    /\ Advance(name)
    /\ cube' = c
    /\ UNCHANGED <<timerVars, triggerVars, lastInput, released, prevColor, sceneVars>>

RunDown == RunInputSystem("down", DownSystem(cube, 1, pending.in.downs))
RunUp == RunInputSystem("up", UpSystem(cube, 1, pending.in.ups))
RunHoverEnter == RunInputSystem("hoverEnter", HoverEnterSystem(cube, pending.in.hoverEnter))
RunHoverLeave == RunInputSystem("hoverLeave", HoverLeaveSystem(cube, pending.in.hoverLeave))

StartFrame == \E dt \in DtSet, in \in FrameInputs : BeginFrame(dt, in)

NextOrder ==
    StartFrame \/ RunCreateDelete \/ RunDown \/ RunUp \/ RunHoverEnter \/ RunHoverLeave

\* The cube of the POINTER action stands for the thirteen cubes here: the
\* order of the systems does not depend on the cube they iterate over.
PointerCube == createInputCube(<<"IA_POINTER">>, FALSE)

InitOrder ==
    Init /\ bulletSpawners = ScenarioSpawners /\ cube = PointerCube /\ setup = NoSetup

SpecOrder == InitOrder /\ [][NextOrder]_vars

(***************************************************************************)
(* The video screen: one frame, with or without a click on the screen.     *)
(* MaxVideoFrames caps the length of videoLog.                             *)
(***************************************************************************)
VideoFrame(cmd) ==
    /\ Len(videoLog) < MaxVideoFrames
    /\ video' = VideoToggleSystem(video, cmd)
    /\ videoLog' = Append(videoLog, cmd)
    /\ UNCHANGED <<timerVars, triggerVars, inputVars, schedVars, setup>>

NextVideo == \E cmd \in BOOLEAN : VideoFrame(cmd)

SpecVideo == InitDirect /\ [][NextVideo]_vars

(***************************************************************************)
(* Construction: main() makes the pending call, createInputCube with the   *)
(* action list and the spawner table with its timers (bulletSpawners,      *)
(* spawnerTimers = bulletSpawners.map(() => 0)); neither tests its         *)
(* arguments.  The frames of the input systems follow.                     *)
(***************************************************************************)
Setup ==
    /\ setup.pending
    /\ cube' = createInputCube(setup.actions, setup.isMasterCube)
    /\ bulletSpawners' = setup.table
    /\ spawnerTimers' = [i \in 1..Len(setup.table) |-> 0]
    /\ setup' = [setup EXCEPT !.pending = FALSE]
    /\ UNCHANGED <<activeBullets, globalTime, spawnLog, engineVars, cdVars, frameLog,
                   dtHist, triggerVars, lastInput, released, prevColor, schedVars,
                   videoVars>>

NextConstruct == Setup \/ NextInput

InitConstruct ==
    Init /\ bulletSpawners = ScenarioSpawners /\ cube = MasterCube /\ setup.pending

SpecConstruct == InitConstruct /\ [][NextConstruct]_vars

(***************************************************************************)
(* Properties of the input cubes.                                          *)
(***************************************************************************)
\* C5: once a release has been processed the albedo colour is DEFAULT_COLOR,
\* and it stays so under any hover-enter and hover-leave until the next press,
\* whether the hover signals come in the frame of the release or in later ones.
C5_ReleaseRestoresNeutral ==
    released => cube.material.albedoColor = DEFAULT_COLOR

\* POINTER (red) was pressed, then released in a frame that also saw a hover-enter.
C5_Witness ==
    /\ released
    /\ cube.lastAction = "POINTER"
    /\ prevColor = findIndex("IA_POINTER")
    /\ lastInput.ups = {"IA_POINTER"}
    /\ lastInput.hoverEnter
    /\ cube.isHovered

\* The last frame observed action-down B alone, and no action-up, while another
\* action was active.
SecondPress(B) ==
    /\ prevColor >= 0
    /\ prevColor # findIndex(B)
    /\ lastInput.downs = {B}
    /\ lastInput.ups = {}

\* C6: action-down B observed while action A is still active (no action-up in
\* between) leaves currentColor at B's index and the cube in B's colour.
C6_LastWriterWins ==
    \A B \in CubeActions :
        SecondPress(B) =>
            /\ cube.currentColor = findIndex(B)
            /\ cube.isPressed
            /\ cube.material.albedoColor = getActionColor(B)

C6_Witness ==
    /\ SecondPress("IA_POINTER")
    /\ prevColor = findIndex("IA_BACKWARD")
    /\ cube.currentColor = findIndex("IA_POINTER")

\* C11: when one frame observes both action-down and action-up for the same
\* action of the cube, the press is processed before the release: at the end of
\* the frame the cube is Idle (isPressed false, currentColor -1, neutral albedo).
C11_PressThenRelease ==
    lastInput.downs \cap lastInput.ups # {} =>
        /\ ~cube.isPressed
        /\ cube.currentColor = -1
        /\ cube.material.albedoColor = DEFAULT_COLOR

\* POINTER went down and up in one frame on an idle cube; the press has left its
\* trace in lastAction, the release has left the cube idle.
C11_Witness ==
    /\ lastInput.downs = {"IA_POINTER"}
    /\ lastInput.ups = {"IA_POINTER"}
    /\ prevColor = -1
    /\ cube.lastAction = "POINTER"
    /\ ~cube.isPressed

\* C12: a cube Pressed with active action B goes back to Idle only on the
\* action-up for B: a frame that observes only the action-up for a different
\* registered action leaves isPressed, currentColor and the colour unchanged.
C12_MatchingUpOnly ==
    ( /\ prevColor >= 0
      /\ lastInput.downs = {}
      /\ lastInput.ups # {}
      /\ \A A \in lastInput.ups : findIndex(A) # prevColor )
    => /\ cube.isPressed
       /\ cube.currentColor = prevColor
       /\ cube.material.albedoColor = INPUT_ACTIONS[prevColor + 1].color

\* C18: a frame that observes only action-down A again, on a cube already
\* Pressed with active action A, is a no-op on the press state: isPressed,
\* currentColor, the albedo colour, lastAction and the hover text are after the
\* frame what they were before it.
C18_RepeatedDownNoOp ==
    [][ \A A \in CubeActions :
          ( /\ cube.isPressed
            /\ cube.currentColor = findIndex(A)
            /\ lastInput' = [downs |-> {A}, ups |-> {},
                             hoverEnter |-> FALSE, hoverLeave |-> FALSE] )
          => /\ cube'.isPressed = cube.isPressed
             /\ cube'.currentColor = cube.currentColor
             /\ cube'.material.albedoColor = cube.material.albedoColor
             /\ cube'.lastAction = cube.lastAction
             /\ cube'.hoverText = cube.hoverText ]_vars

\* The last frame observed hover signals and no button command.
HoverOnly ==
    /\ lastInput.downs = {}
    /\ lastInput.ups = {}
    /\ lastInput.hoverEnter \/ lastInput.hoverLeave

\* C20: a frame of hover-enter and hover-leave signals alone changes the hover
\* axis only: isPressed, currentColor and lastAction are unchanged, and the
\* albedo colour is the active action's colour if there is one, else neutral.
C20_HoverKeepsPressState ==
    [][ HoverOnly' =>
          /\ cube'.isPressed = cube.isPressed
          /\ cube'.currentColor = cube.currentColor
          /\ cube'.lastAction = cube.lastAction
          /\ cube'.material.albedoColor = CurrentColorOf(cube) ]_vars

\* A hover-leave on a cube that is Pressed with POINTER: still red.
C20_Witness ==
    /\ HoverOnly
    /\ lastInput.hoverLeave
    /\ ~cube.isHovered
    /\ cube.isPressed
    /\ cube.currentColor = findIndex("IA_POINTER")
    /\ cube.material.albedoColor = getActionColor("IA_POINTER")

\* The last frame processed a hover-enter and no hover-leave after it.
HoverEntered == lastInput.hoverEnter /\ ~lastInput.hoverLeave

\* C21: after a hover-enter the emissive overlay and the albedo both have the
\* active action's colour while an action is active, and both have the neutral
\* colour while none is: the overlay does not replace the press-state colour.
C21_OverlayUsesActiveColour ==
    HoverEntered =>
        /\ cube.material.emissiveIntensity = "0.6"
        /\ IF cube.currentColor >= 0
           THEN /\ cube.material.albedoColor = INPUT_ACTIONS[cube.currentColor + 1].color
                /\ cube.material.emissiveColor = INPUT_ACTIONS[cube.currentColor + 1].color
           ELSE /\ cube.material.albedoColor = DEFAULT_COLOR
                /\ cube.material.emissiveColor = DEFAULT_COLOR

\* A hover-enter alone on a cube that was pressed with POINTER in an earlier frame.
C21_Witness ==
    /\ HoverEntered
    /\ lastInput.downs = {}
    /\ lastInput.ups = {}
    /\ prevColor = findIndex("IA_POINTER")
    /\ cube.isPressed
    /\ cube.material.emissiveColor = getActionColor("IA_POINTER")

\* The hover text of the action-down pointer entries of the cube at creation.
CreationHoverText == createInputCube(cube.actions, cube.isMasterCube).hoverText

\* C25: once a release has been processed, every action-down pointer entry of
\* the cube shows the text it had at creation: 'Press any key' on the master
\* cube, 'Press <key>' with the key of the entry's own button on the others.
C25_ReleaseRestoresHoverText ==
    lastInput.ups # {} =>
        /\ cube.hoverText = CreationHoverText
        /\ \A i \in 1..Len(cube.actions) :
              cube.hoverText[i] = IF cube.isMasterCube THEN PressAnyKey
                                  ELSE PressKey(getActionKey(cube.actions[i]))

\* The cube was pressed with POINTER in an earlier frame (its text then read
\* 'Pressed: POINTER') and the last frame released it.
C25_Witness ==
    /\ lastInput.ups = {"IA_POINTER"}
    /\ lastInput.downs = {}
    /\ prevColor = findIndex("IA_POINTER")
    /\ ~cube.isMasterCube
    /\ cube.hoverText = <<PressKey("Left Click")>>

\* C26: isPressed is true iff currentColor >= 0, and then currentColor is an
\* index of INPUT_ACTIONS whose action is one of the cube's registered actions.
C26_PressedIffActiveIndex ==
    /\ cube.isPressed <=> cube.currentColor >= 0
    /\ cube.currentColor >= 0 =>
          /\ cube.currentColor < Len(INPUT_ACTIONS)
          /\ INPUT_ACTIONS[cube.currentColor + 1].action \in CubeActions
    /\ cube.currentColor >= -1

\* The cube of the last action of the table, pressed.
C26_Witness ==
    /\ cube.isPressed
    /\ cube.currentColor = Len(INPUT_ACTIONS) - 1
    /\ cube.actions = <<"IA_RIGHT">>

\* C27: at the end of every frame the emissive overlay (intensity 0.6) is on
\* the cube iff isHovered is true.
C27_EmissiveIffHovered ==
    cube.material.emissiveIntensity = "0.6" <=> cube.isHovered

\* The default prompt of the cube, and the text shown while an action is active.
ExpectedHoverText ==
    IF cube.isPressed
    THEN [i \in 1..Len(cube.actions) |->
              PressedName(INPUT_ACTIONS[cube.currentColor + 1].name)]
    ELSE CreationHoverText

\* C28: at the end of every frame the action-down hover text reads
\* 'Pressed: <name of the active action>' if isPressed, the default prompt if not.
C28_HoverTextAgreesWithPress ==
    cube.hoverText = ExpectedHoverText

(***************************************************************************)
(* Properties of the bullet spawner and of the create/delete loop.         *)
(***************************************************************************)
Range(s) == {s[i] : i \in 1..Len(s)}

BulletEntities == {spawnLog[i].entity : i \in 1..Len(spawnLog)}
RemovedBullets == Range(removeCalls) \cap BulletEntities
FirstBullets(k) == {spawnLog[i].entity : i \in 1..k}

\* The documented scenario: interval 1.0 s, lifetime 2.0 s, ten frames of 0.5 s.
ScenarioDone ==
    /\ bulletSpawners = ScenarioSpawners
    /\ UniformDt(10)
    /\ globalTime = 100

\* C1 (as stated): at the end of the scenario 5 items have been spawned and
\* exactly the first 2 of them destroyed.
C1_Original ==
    ScenarioDone => /\ Len(spawnLog) = 5
                    /\ RemovedBullets = FirstBullets(2)

\* C1 (amended): at the end of the scenario 5 items have been spawned and exactly
\* the first 3 of them destroyed: the third, spawned at 3.0 s, dies at 5.0 s, and
\* the despawn pass removes an item as soon as globalTime >= deathTime.
C1_ScenarioCounts ==
    ScenarioDone => /\ Len(spawnLog) = 5
                    /\ RemovedBullets = FirstBullets(3)
                    /\ Len(activeBullets) = 2

C1_Witness ==
    /\ ScenarioDone
    /\ Len(removeCalls) > frameLog.remove0

\* The bullets the last frame created, as entries of spawnLog.
FrameSpawns == {i \in 1..Len(spawnLog) : i > frameLog.spawn0}
FrameRemoved == {removeCalls[i] : i \in {j \in 1..Len(removeCalls) : j > frameLog.remove0}}

\* C9: an item created in a frame is not destroyed in that frame: at the end of
\* the frame it is still in activeBullets, with a death time in the future, for
\* every dt >= 0.
C9_NoSameTickDespawn ==
    \A i \in FrameSpawns :
        /\ spawnLog[i].entity \notin Range(removeCalls)
        /\ \E k \in 1..Len(activeBullets) :
              /\ activeBullets[k].entity = spawnLog[i].entity
              /\ activeBullets[k].deathTime > globalTime

\* A frame that both created an item and destroyed (older) items.
C9_Witness ==
    /\ FrameSpawns # {}
    /\ FrameRemoved \cap BulletEntities # {}

\* C10: whatever the dt, a frame creates at most one item per spawner and toggles
\* the create/delete box at most once.
C10_NoCatchUpBurst ==
    /\ \A i, j \in FrameSpawns :
          spawnLog[i].spawner = spawnLog[j].spawner => i = j
    /\ Len(cdLog) - frameLog.cd0 <= 1

\* A frame of 5 s, ten times the shortest interval, after which every spawner
\* fired once and the box toggled once.
C10_Witness ==
    /\ frameLog.dt = 100
    /\ bulletSpawners = SourceSpawners
    /\ Cardinality(FrameSpawns) = Len(bulletSpawners)
    /\ Len(cdLog) - frameLog.cd0 = 1

\* C7: ticked N times with dt equal to its interval, the create/delete box has
\* toggled exactly N times, create and delete alternating from create, and
\* exists iff N is odd.
C7_AlternatesAtInterval ==
    UniformDt(CREATE_DELETE_INTERVAL) =>
        LET N == globalTime \div CREATE_DELETE_INTERVAL IN
        /\ Len(cdLog) = N
        /\ \A i \in 1..Len(cdLog) :
              cdLog[i] = IF i % 2 = 1 THEN "create" ELSE "delete"
        /\ (createDeleteEntity # Null) <=> (N % 2 = 1)

C7_Witness ==
    /\ UniformDt(CREATE_DELETE_INTERVAL)
    /\ cdLog = <<"create", "delete", "create", "delete", "create">>
    /\ createDeleteEntity # Null

\* C8: deleteTestBox called while no instance exists changes nothing: no
\* removeEntity call, and the timer, the handle and the occupancy flag keep
\* their values.
C8_DoubleDeleteNoOp ==
    (cdCall.called /\ cdCall.pre.entity = Null) =>
        /\ CdRecord = cdCall.pre
        /\ createDeleteTimer = cdCall.timer

\* deleteTestBox has just been called on an empty slot that an earlier delete
\* had emptied.
C8_Witness ==
    /\ cdCall.called
    /\ cdCall.pre.entity = Null
    /\ Len(cdLog) > 0
    /\ cdLog[Len(cdLog)] = "delete"

\* C15: whenever no box exists the occupancy flag is false (deletion resets
\* it), and a box the player has not entered since it was created shows the
\* 'outside' colour, also when the previous box was deleted with the player in it.
C15_NoBoxNotOccupied ==
    /\ createDeleteEntity = Null => ~isPlayerInsideCreateDelete
    /\ (createDeleteEntity # Null /\ ~cdOverlap) =>
           /\ ~isPlayerInsideCreateDelete
           /\ cdAlbedo = TRIGGER_COLOR_OUTSIDE

\* The second box, created after the first was deleted with the player inside.
C15_Witness ==
    /\ deletedInside
    /\ cdLog = <<"create", "delete", "create">>
    /\ createDeleteEntity # Null
    /\ ~cdOverlap
    /\ cdAlbedo = TRIGGER_COLOR_OUTSIDE

\* engine: the entities added and not removed; those that are no bullets are
\* instances of the create/delete box.
LiveEntities == (1..(nextEntity - 1)) \ Range(removeCalls)
LiveBoxes == LiveEntities \ BulletEntities

\* C16: the create/delete fixture has 0 or 1 live instances, and the stored
\* handle is non-null exactly when one live instance exists (it is that one).
C16_AtMostOneBox ==
    /\ Cardinality(LiveBoxes) <= 1
    /\ createDeleteEntity # Null <=> Cardinality(LiveBoxes) = 1
    /\ createDeleteEntity # Null => LiveBoxes = {createDeleteEntity}

\* The third box is live, the first two are gone.
C16_Witness ==
    /\ Len(cdLog) = 5
    /\ createDeleteEntity # Null
    /\ Cardinality(Range(removeCalls) \ BulletEntities) = 2
    /\ LiveBoxes = {createDeleteEntity}

\* The spawner that created the bullet entity e.
SpawnerOf(e) == spawnLog[CHOOSE i \in 1..Len(spawnLog) : spawnLog[i].entity = e].spawner

\* C17 (as stated): at the end of every frame activeBullets is sorted by
\* non-decreasing death time.
C17_Original ==
    \A i, j \in 1..Len(activeBullets) :
        i < j => activeBullets[i].deathTime <= activeBullets[j].deathTime

\* C17 (amended): activeBullets is in insertion order (the entities in the order
\* they were created), and the items of one spawner appear in non-decreasing
\* death time; across spawners of different lifetimes it need not be sorted.
C17_InsertionOrder ==
    \A i, j \in 1..Len(activeBullets) :
        i < j =>
            /\ activeBullets[i].entity < activeBullets[j].entity
            /\ SpawnerOf(activeBullets[i].entity) = SpawnerOf(activeBullets[j].entity)
                   => activeBullets[i].deathTime <= activeBullets[j].deathTime

\* An item of a long-lived spawner ahead of a later item that dies earlier, and
\* two items of one spawner in the collection.
C17_Witness ==
    /\ \E i, j \in 1..Len(activeBullets) :
           i < j /\ activeBullets[i].deathTime > activeBullets[j].deathTime
    /\ \E i, j \in 1..Len(activeBullets) :
           /\ i < j
           /\ SpawnerOf(activeBullets[i].entity) = SpawnerOf(activeBullets[j].entity)
           /\ activeBullets[i].deathTime < activeBullets[j].deathTime

(***************************************************************************)
(* Properties of the order of the systems within a frame.                  *)
(***************************************************************************)
\* Whenever system b has run in the current frame, system a has run before it.
RunsBefore(a, b) ==
    \A j \in 1..Len(ran) : ran[j] = b => \E i \in 1..(j - 1) : ran[i] = a

InputHandlersInOrder ==
    /\ RunsBefore("down", "up")
    /\ RunsBefore("up", "hoverEnter")
    /\ RunsBefore("hoverEnter", "hoverLeave")

C22_NoDanglingHandle ==
    /\ \A k \in 1..Len(activeBullets) : activeBullets[k].entity \notin Range(removeCalls)
    /\ createDeleteEntity # Null => createDeleteEntity \notin Range(removeCalls)
    /\ \A i, j \in 1..Len(removeCalls) : removeCalls[i] = removeCalls[j] => i = j

\* The last frame destroyed a bullet and the box, and bullets are still active.
C22_Witness ==
    /\ FrameRemoved \cap BulletEntities # {}
    /\ FrameRemoved \ BulletEntities # {}
    /\ createDeleteEntity = Null
    /\ activeBullets # <<>>

\* The death time of the i-th bullet ever spawned: the global time of the frame
\* that spawned it plus the lifetime of its spawner.
DueTime(i) == spawnLog[i].at + bulletSpawners[spawnLog[i].spawner].lifetime

\* C23: every spawned item is destroyed, and taken out of activeBullets, in the
\* first frame whose global time is >= its death time and not before: at the end
\* of a frame an item is gone iff its death time is <= the global time, an item
\* not gone is in activeBullets with that death time, and an item the last frame
\* destroyed was not yet due at the end of the frame before.
C23_DestroyedWhenDue ==
    \A i \in 1..Len(spawnLog) :
        /\ spawnLog[i].entity \in Range(removeCalls) <=> DueTime(i) <= globalTime
        /\ spawnLog[i].entity \notin Range(removeCalls) =>
              \E k \in 1..Len(activeBullets) :
                  activeBullets[k] = [entity |-> spawnLog[i].entity, deathTime |-> DueTime(i)]
        /\ spawnLog[i].entity \in FrameRemoved => DueTime(i) > globalTime - frameLog.dt

\* The last frame destroyed an item that stood in the list behind an item that
\* is not due yet, and left that one alone.
C23_Witness ==
    \E i, j \in 1..Len(spawnLog) :
        /\ i < j
        /\ spawnLog[j].entity \in FrameRemoved
        /\ DueTime(j) = globalTime
        /\ spawnLog[i].entity \notin Range(removeCalls)
        /\ DueTime(i) > globalTime

\* The live items of spawner s, and ceil(L / I) for its lifetime L and interval I.
LiveItemsOf(s) ==
    {k \in 1..Len(activeBullets) : SpawnerOf(activeBullets[k].entity) = s}
CeilLifetimeOverInterval(s) ==
    (bulletSpawners[s].lifetime + bulletSpawners[s].interval - 1)
        \div bulletSpawners[s].interval

\* C29: at the end of every frame the number of live items of a spawner is at
\* most ceil(L / I), and two consecutive spawns of one spawner are at least I of
\* accumulated time apart.
C29_PoolBounded ==
    /\ \A s \in 1..Len(bulletSpawners) :
          Cardinality(LiveItemsOf(s)) <= CeilLifetimeOverInterval(s)
    /\ \A i, j \in 1..Len(spawnLog) :
          (i < j /\ spawnLog[i].spawner = spawnLog[j].spawner)
              => spawnLog[j].at - spawnLog[i].at >= bulletSpawners[spawnLog[i].spawner].interval

\* The third spawner of the table (interval 1 s, lifetime 2.5 s) with its three
\* items alive, the bound ceil(2.5 / 1).
C29_Witness ==
    /\ bulletSpawners = SourceSpawners
    /\ Cardinality(LiveItemsOf(3)) = 3
    /\ CeilLifetimeOverInterval(3) = 3

(***************************************************************************)
(* Properties of the construction of the fixtures.                         *)
(***************************************************************************)
\* C24: a malformed configuration is rejected when the fixture is constructed:
\* no input cube with an empty action list and no spawner with interval <= 0 or
\* lifetime <= 0 is among the fixtures the frames run on.
C24_MalformedRejected ==
    ~setup.pending =>
        /\ Len(cube.actions) > 0
        /\ \A i \in 1..Len(bulletSpawners) :
              bulletSpawners[i].interval > 0 /\ bulletSpawners[i].lifetime > 0

(***************************************************************************)
(* Properties of the video screen.                                         *)
(***************************************************************************)
RECURSIVE Clicks(_)
\* The number of frames of log that clicked the screen.
Clicks(log) ==
    IF log = <<>> THEN 0
    ELSE (IF log[Len(log)] THEN 1 ELSE 0) + Clicks(SubSeq(log, 1, Len(log) - 1))

\* C30: after any number of clicks VideoPlayer.playing equals isPlaying, which
\* is true iff the number of clicks is odd, and the hover text and the status
\* label match it; so a frame without a click changes none of them and two
\* clicks restore the initial paused state.
C30_VideoToggle ==
    /\ video.playing = video.isPlaying
    /\ video.isPlaying <=> Clicks(videoLog) % 2 = 1
    /\ video = VideoState(video.isPlaying)
    /\ Clicks(videoLog) % 2 = 0 => video = VideoAtSetup

\* Two clicks, a frame without a click, a third click: playing.
C30_Witness ==
    /\ videoLog = <<TRUE, TRUE, FALSE, TRUE>>
    /\ video.playing
    /\ video.hoverText = "Click to PAUSE"
    /\ video.statusText = "PLAYING - Click screen to pause"
====
